---- MODULE Spec2Model ----
(***************************************************************************)
(* Vellume edge API (Cloudflare Worker): usage-limit enforcement, cloud    *)
(* generation with bounded retry, and Stripe webhook reconciliation.       *)
(*                                                                         *)
(* State: the D1 tables subscriptions, usage_tracking and entry, the R2    *)
(* bucket IMAGES, the clock read by now(), and one record per request in   *)
(* flight holding the handler's local variables and its position (pc).     *)
(* Every await on the database, the bucket, the AI binding or Stripe is a  *)
(* separate step, so requests interleave exactly at the handler's awaits.  *)
(*                                                                         *)
(* Mobile journal store (zustand): the in-memory list journals, its copy  *)
(* in MMKV storage, isLoading and error, the entries the API holds for the *)
(* user, and one record per store call in flight; every await on fetch()   *)
(* and on response.json() is a separate step.                              *)
(***************************************************************************)
EXTENDS Integers, Sequences, FiniteSets, TLC

\* ---------------------------------------------------------------- bounds
MaxJitter == 0
MaxLedger == 4
MaxFaults == 1
MaxAdds == 1
MaxRemote == 2

\* ------------------------------------------------------ program constants
WEEK == 604800000
FREE_LIMIT == 3
PREMIUM_LIMIT == 999
maxRetriesOneMore == 2 + 1

maxRetries == 2

NULL == "null"
NoTime == -1

Users == {"u1", "u2"}
Slots == {1, 2}
EntryIds == {"e1"}
QualifyingTags == {"image_generated", "cloud_image_generated"}

\* Instants at which now() is sampled: the start, and one week later plus
\* 0..MaxJitter ms, so that an event can lie exactly on the lower bound of the
\* trailing window of a later request or inside it (and, from MaxJitter = 1 on,
\* 1 ms before it).
Times == {0} \cup {WEEK + j : j \in 0..MaxJitter}

\* Stripe's vocabulary, as far as the handlers look at it.
Plans == {"premium_monthly", "premium_yearly"}
ProviderStatuses == {"active", "past_due"}
\* current_period_end as Stripe reports it, in seconds.
PeriodEnds == {86400, 172800}
NoId == 0

VARIABLES now, subscriptions, usage_tracking, entry, IMAGES, stripeCustomers,
          reqs, effects, faults,
          journals, isLoading, error, storage, remote, generated, calls

apiVars == <<now, subscriptions, usage_tracking, entry, IMAGES, stripeCustomers,
             reqs, effects, faults>>

storeVars == <<journals, isLoading, error, storage, remote, generated, calls>>

vars == <<apiVars, storeVars>>

\* ---------------------------------------------------------------- helpers

\* Indices of the rows of tbl that belong to user u, in insertion order.
RowsOfUser(tbl, u) == {i \in DOMAIN tbl : tbl[i].user_id = u}

Min(S) == CHOOSE x \in S : \A y \in S : x <= y

SelectStatusUnexpired(tbl, u) ==
    IF RowsOfUser(tbl, u) = {} THEN NULL
    ELSE LET row == tbl[Min(RowsOfUser(tbl, u))]
         IN IF row.status = "active" /\ row.current_period_end < now
            THEN "expired" ELSE row.status

\* SELECT status FROM subscriptions WHERE user_id = ?  (.first())
SelectStatus(tbl, u) ==
    IF RowsOfUser(tbl, u) = {} THEN NULL ELSE tbl[Min(RowsOfUser(tbl, u))].status

IsPremiumWrongLiteral(status) == status = "premium"

\* isPremium = subscription?.status === 'active'
IsPremium(status) == status = "active"

uploadUsageCountReserving(tbl, u, weekAgo) ==
    Cardinality({i \in DOMAIN tbl : /\ tbl[i].user_id = u
                                    /\ tbl[i].action = "image_generated"
                                    /\ tbl[i].created_at > weekAgo})
    + Cardinality({r \in DOMAIN reqs :
                      /\ reqs[r].handler \in {"upload", "cloud"}
                      /\ reqs[r].userId = u
                      /\ reqs[r].pc \in {"parse", "ai", "put", "entry", "track"}})

\* handleImageUpload's COUNT(*) query
uploadUsageCount(tbl, u, weekAgo) ==
    Cardinality({i \in DOMAIN tbl : /\ tbl[i].user_id = u
                                    /\ tbl[i].action = "image_generated"
                                    /\ tbl[i].created_at > weekAgo})

\* handleCloudGeneration's COUNT(*) query
cloudUsageCount(tbl, u, weekAgo) ==
    Cardinality({i \in DOMAIN tbl : /\ tbl[i].user_id = u
                                    /\ (tbl[i].action = "image_generated"
                                        \/ tbl[i].action = "cloud_image_generated")
                                    /\ tbl[i].created_at > weekAgo})

\* handleGetUserMe's COUNT(*) query
meUsageCount(tbl, u, weekAgo) ==
    Cardinality({i \in DOMAIN tbl : /\ tbl[i].user_id = u
                                    /\ tbl[i].action = "image_generated"
                                    /\ tbl[i].created_at > weekAgo})

TrackUsageReplacing(tbl, u, action, t) ==
    LET mine == {i \in DOMAIN tbl : tbl[i].user_id = u}
        new == [user_id |-> u, action |-> action, created_at |-> t]
    IN IF mine = {} THEN Append(tbl, new)
       ELSE [tbl EXCEPT ![CHOOSE i \in mine : \A j \in mine : j <= i] = new]

\* INSERT INTO usage_tracking (id, user_id, action, created_at)
TrackUsage(tbl, u, action, t) ==
    Append(tbl, [user_id |-> u, action |-> action, created_at |-> t])

\* UPDATE entry SET image_url = ?, updated_at = ? WHERE id = ? AND user_id = ?
UpdateEntry(tbl, id, u, url, t) ==
    [e \in DOMAIN tbl |->
        IF e = id /\ tbl[e].user_id = u
        THEN [tbl[e] EXCEPT !.image_url = url, !.updated_at = t]
        ELSE tbl[e]]

\* R2 object key `${userId}/${id}.${ext}` resp. `${userId}/${journal_id}-cloud.png`;
\* the image URL is the key behind a fixed prefix.
Key(u, id, kind) == [user_id |-> u, id |-> id, kind |-> kind]

NoUrl == Key(NULL, NULL, NULL)

BackoffBeforeIncrement(retries) == (2 ^ (retries - 1)) * 1000

\* Math.pow(2, retries) * 1000
Backoff(retries) == (2 ^ retries) * 1000

\* ------------------------------------------------------- request records

NoEvent ==
    [type |-> NULL, user_id |-> NULL, plan |-> NULL, subscription |-> NoId,
     customer |-> NoId, status |-> NULL, current_period_end |-> NoTime]

Idle ==
    [handler |-> "none", pc |-> "idle", userId |-> NULL,
     subscription |-> "unread", imagesThisWeek |-> -1, limit |-> -1,
     body |-> NULL, entry_id |-> NULL,
     retries |-> 0, attempts |-> 0, waits |-> <<>>, imageBuffer |-> FALSE,
     hasRow |-> FALSE, customerId |-> NoId,
     signature |-> NULL, event |-> NoEvent, currentPeriodEnd |-> NoTime,
     status |-> 0, code |-> ""]

\* jsonResponse / errorResponse: the handler returns, its locals go out of
\* scope and the request ends with this status and code.  What stays on record
\* is who asked (the bearer's user id, the stripe-signature header), the
\* response, and the calls made to the AI binding.
Respond(rec, status, code) ==
    [Idle EXCEPT !.handler = rec.handler, !.pc = "done", !.userId = rec.userId,
                 !.signature = rec.signature,
                 !.attempts = rec.attempts, !.waits = rec.waits,
                 !.status = status, !.code = code]

\* The body of GET /api/user/me: usage.images_this_week and usage.limit.
RespondUsage(rec, imagesThisWeek, limit) ==
    [Respond(rec, 200, "OK") EXCEPT !.imagesThisWeek = imagesThisWeek, !.limit = limit]

Free(r) == reqs[r].pc \in {"idle", "done"}

InFlightImages ==
    Cardinality({r \in Slots : /\ reqs[r].handler \in {"upload", "cloud"}
                               /\ reqs[r].pc # "done"})

\* Room for one more billable request within the ledger bound.
Room == Len(usage_tracking) + InFlightImages < MaxLedger

Set(r, rec) == reqs' = [reqs EXCEPT ![r] = rec]

Stores == <<subscriptions, usage_tracking, entry, IMAGES>>

UniqueExceptUserId(tbl) ==
    \A i, j \in DOMAIN tbl :
        i # j => /\ (tbl[i].stripe_customer_id = NoId
                        \/ tbl[i].stripe_customer_id # tbl[j].stripe_customer_id)
                 /\ (tbl[i].stripe_subscription_id = NoId
                        \/ tbl[i].stripe_subscription_id # tbl[j].stripe_subscription_id)

\* The schema's UNIQUE columns of subscriptions (SQL NULLs never collide).
Unique(tbl) ==
    \A i, j \in DOMAIN tbl :
        i # j => /\ tbl[i].user_id # tbl[j].user_id
                 /\ (tbl[i].stripe_customer_id = NoId
                        \/ tbl[i].stripe_customer_id # tbl[j].stripe_customer_id)
                 /\ (tbl[i].stripe_subscription_id = NoId
                        \/ tbl[i].stripe_subscription_id # tbl[j].stripe_subscription_id)

InternalErrorSwallowed(rec) == Respond(rec, 200, "OK")

\* An exception that leaves the handler: fetch's catch answers 500 INTERNAL_ERROR.
InternalError(rec) == Respond(rec, 500, "INTERNAL_ERROR")

\* -------------------------------------------------------------- the clock

Tick ==
    /\ \E t \in Times : t > now /\ now' = t
    /\ UNCHANGED <<Stores, stripeCustomers, reqs, faults>>

\* ------------------------------------------------ POST /api/images/upload

BeginUpload(r, token, body, entry_id) ==
    /\ Free(r)
    /\ token # NULL => Room
    /\ Set(r, IF token = NULL
              THEN Respond([Idle EXCEPT !.handler = "upload"], 401, "UNAUTHORIZED")
              ELSE [Idle EXCEPT !.handler = "upload", !.pc = "sub", !.userId = token,
                                !.body = body, !.entry_id = entry_id])
    /\ UNCHANGED <<now, Stores, stripeCustomers, faults>>

UploadSub(r) ==
    /\ reqs[r].handler = "upload" /\ reqs[r].pc = "sub"
    /\ LET status == SelectStatus(subscriptions, reqs[r].userId)
       IN Set(r, [reqs[r] EXCEPT !.subscription = status,
                                 !.pc = IF IsPremium(status) THEN "parse" ELSE "count"])
    /\ UNCHANGED <<now, Stores, stripeCustomers, faults>>

UploadCountAfterParse(r) ==
    /\ reqs[r].handler = "upload" /\ reqs[r].pc = "count"
    /\ LET n == uploadUsageCount(usage_tracking, reqs[r].userId, now - WEEK)
           rec == [reqs[r] EXCEPT !.imagesThisWeek = n]
       IN Set(r, IF reqs[r].body = "no_image"
                 THEN Respond(rec, 400, "MISSING_IMAGE")
                 ELSE IF n >= FREE_LIMIT
                      THEN Respond(rec, 403, "LIMIT_REACHED")
                      ELSE [rec EXCEPT !.pc = "parse"])
    /\ UNCHANGED <<now, Stores, stripeCustomers, faults>>

UploadCount(r) ==
    /\ reqs[r].handler = "upload" /\ reqs[r].pc = "count"
    /\ LET n == uploadUsageCount(usage_tracking, reqs[r].userId, now - WEEK)
           rec == [reqs[r] EXCEPT !.imagesThisWeek = n]
       IN Set(r, IF n >= FREE_LIMIT
                 THEN Respond(rec, 403, "LIMIT_REACHED")
                 ELSE [rec EXCEPT !.pc = "parse"])
    /\ UNCHANGED <<now, Stores, stripeCustomers, faults>>

UploadParse(r) ==
    /\ reqs[r].handler = "upload" /\ reqs[r].pc = "parse"
    /\ Set(r, CASE reqs[r].body = "malformed" -> InternalError(reqs[r])
              [] reqs[r].body = "no_image"  -> Respond(reqs[r], 400, "MISSING_IMAGE")
              [] OTHER                      -> [reqs[r] EXCEPT !.pc = "put"])
    /\ UNCHANGED <<now, Stores, stripeCustomers, faults>>

UploadPutCharging(r) ==
    /\ reqs[r].handler = "upload" /\ reqs[r].pc = "put"
    /\ IMAGES' = Append(IMAGES, Key(reqs[r].userId, "uuid", "upload"))
    /\ usage_tracking' = TrackUsage(usage_tracking, reqs[r].userId,
                                    "image_generated", now)
    /\ Set(r, [reqs[r] EXCEPT !.pc = IF reqs[r].entry_id # NULL
                                     THEN "entry" ELSE "track"])
    /\ UNCHANGED <<now, subscriptions, entry, stripeCustomers, faults>>

UploadPut(r) ==
    /\ reqs[r].handler = "upload" /\ reqs[r].pc = "put"
    /\ IMAGES' = Append(IMAGES, Key(reqs[r].userId, "uuid", "upload"))
    /\ Set(r, [reqs[r] EXCEPT !.pc = IF reqs[r].entry_id # NULL
                                     THEN "entry" ELSE "track"])
    /\ UNCHANGED <<now, subscriptions, usage_tracking, entry, stripeCustomers, faults>>

UploadEntry(r) ==
    /\ reqs[r].handler = "upload" /\ reqs[r].pc = "entry"
    /\ entry' = UpdateEntry(entry, reqs[r].entry_id, reqs[r].userId,
                            Key(reqs[r].userId, "uuid", "upload"), now)
    /\ Set(r, [reqs[r] EXCEPT !.pc = "track"])
    /\ UNCHANGED <<now, subscriptions, usage_tracking, IMAGES, stripeCustomers, faults>>

UploadTrack(r) ==
    /\ reqs[r].handler = "upload" /\ reqs[r].pc = "track"
    /\ usage_tracking' = TrackUsage(usage_tracking, reqs[r].userId,
                                    "image_generated", now)
    /\ Set(r, Respond(reqs[r], 200, "OK"))
    /\ UNCHANGED <<now, subscriptions, entry, IMAGES, stripeCustomers, faults>>

\* ---------------------------------------- POST /api/images/generate-cloud

BeginCloud(r, token, body, journal_id) ==
    /\ Free(r)
    /\ token # NULL => Room
    /\ Set(r, IF token = NULL
              THEN Respond([Idle EXCEPT !.handler = "cloud"], 401, "UNAUTHORIZED")
              ELSE [Idle EXCEPT !.handler = "cloud", !.pc = "sub", !.userId = token,
                                !.body = body, !.entry_id = journal_id])
    /\ UNCHANGED <<now, Stores, stripeCustomers, faults>>

CloudSub(r) ==
    /\ reqs[r].handler = "cloud" /\ reqs[r].pc = "sub"
    /\ LET status == SelectStatus(subscriptions, reqs[r].userId)
       IN Set(r, [reqs[r] EXCEPT !.subscription = status,
                                 !.pc = IF IsPremium(status) THEN "parse" ELSE "count"])
    /\ UNCHANGED <<now, Stores, stripeCustomers, faults>>

CloudCount(r) ==
    /\ reqs[r].handler = "cloud" /\ reqs[r].pc = "count"
    /\ LET n == cloudUsageCount(usage_tracking, reqs[r].userId, now - WEEK)
           rec == [reqs[r] EXCEPT !.imagesThisWeek = n]
       IN Set(r, IF n >= FREE_LIMIT
                 THEN Respond(rec, 403, "LIMIT_REACHED")
                 ELSE [rec EXCEPT !.pc = "parse"])
    /\ UNCHANGED <<now, Stores, stripeCustomers, faults>>

CloudParseChargingFirst(r) ==
    /\ reqs[r].handler = "cloud" /\ reqs[r].pc = "parse"
    /\ Set(r, CASE reqs[r].body = "invalid"    -> Respond(reqs[r], 400, "INVALID_BODY")
              [] reqs[r].body = "no_text"    -> Respond(reqs[r], 400, "MISSING_TEXT")
              [] reqs[r].body = "no_journal" -> Respond(reqs[r], 400, "MISSING_JOURNAL_ID")
              [] OTHER                       -> [reqs[r] EXCEPT !.pc = "ai"])
    /\ usage_tracking' = IF reqs[r].body = "ok"
                         THEN TrackUsage(usage_tracking, reqs[r].userId,
                                         "cloud_image_generated", now)
                         ELSE usage_tracking
    /\ UNCHANGED <<now, subscriptions, entry, IMAGES, stripeCustomers, faults>>

CloudParse(r) ==
    /\ reqs[r].handler = "cloud" /\ reqs[r].pc = "parse"
    /\ Set(r, CASE reqs[r].body = "invalid"    -> Respond(reqs[r], 400, "INVALID_BODY")
              [] reqs[r].body = "no_text"    -> Respond(reqs[r], 400, "MISSING_TEXT")
              [] reqs[r].body = "no_journal" -> Respond(reqs[r], 400, "MISSING_JOURNAL_ID")
              [] OTHER                       -> [reqs[r] EXCEPT !.pc = "ai"])
    /\ UNCHANGED <<now, Stores, stripeCustomers, faults>>

\* One pass of the retry loop: env.AI.run either returns the image or throws.
CloudAttempt(r) ==
    /\ reqs[r].handler = "cloud" /\ reqs[r].pc = "ai"
    /\ IF reqs[r].retries > maxRetries
       THEN Set(r, Respond(reqs[r], 500, "AI_GENERATION_FAILED"))
       ELSE \E ok \in BOOLEAN :
              LET rec == [reqs[r] EXCEPT !.attempts = @ + 1]
                  retries == reqs[r].retries + 1
              IN Set(r, IF ok
                        THEN [rec EXCEPT !.imageBuffer = TRUE, !.pc = "put"]
                        ELSE IF retries > maxRetries
                             THEN Respond([rec EXCEPT !.retries = retries],
                                          503, "AI_GENERATION_FAILED")
                             ELSE [rec EXCEPT !.retries = retries,
                                              !.waits = Append(@, Backoff(retries))])
    /\ UNCHANGED <<now, Stores, stripeCustomers, faults>>

CloudPut(r) ==
    /\ reqs[r].handler = "cloud" /\ reqs[r].pc = "put"
    /\ IMAGES' = Append(IMAGES, Key(reqs[r].userId, reqs[r].entry_id, "cloud"))
    /\ Set(r, [reqs[r] EXCEPT !.pc = "entry"])
    /\ UNCHANGED <<now, subscriptions, usage_tracking, entry, stripeCustomers, faults>>

CloudEntry(r) ==
    /\ reqs[r].handler = "cloud" /\ reqs[r].pc = "entry"
    /\ entry' = UpdateEntry(entry, reqs[r].entry_id, reqs[r].userId,
                            Key(reqs[r].userId, reqs[r].entry_id, "cloud"), now)
    /\ Set(r, [reqs[r] EXCEPT !.pc = "track"])
    /\ UNCHANGED <<now, subscriptions, usage_tracking, IMAGES, stripeCustomers, faults>>

CloudTrackPerAttempt(r) ==
    /\ reqs[r].handler = "cloud" /\ reqs[r].pc = "track"
    /\ usage_tracking' =
          usage_tracking \o [k \in 1..reqs[r].attempts |->
                                [user_id |-> reqs[r].userId,
                                 action |-> "cloud_image_generated",
                                 created_at |-> now]]
    /\ Set(r, Respond(reqs[r], 200, "OK"))
    /\ UNCHANGED <<now, subscriptions, entry, IMAGES, stripeCustomers, faults>>

CloudTrack(r) ==
    /\ reqs[r].handler = "cloud" /\ reqs[r].pc = "track"
    /\ usage_tracking' = TrackUsage(usage_tracking, reqs[r].userId,
                                    "cloud_image_generated", now)
    /\ Set(r, Respond(reqs[r], 200, "OK"))
    /\ UNCHANGED <<now, subscriptions, entry, IMAGES, stripeCustomers, faults>>

\* ------------------------------------------------------- GET /api/user/me

BeginMe(r, token) ==
    /\ Free(r)
    /\ Set(r, IF token = NULL
              THEN Respond([Idle EXCEPT !.handler = "me"], 401, "UNAUTHORIZED")
              ELSE [Idle EXCEPT !.handler = "me", !.pc = "sub", !.userId = token])
    /\ UNCHANGED <<now, Stores, stripeCustomers, faults>>

MeSub(r) ==
    /\ reqs[r].handler = "me" /\ reqs[r].pc = "sub"
    /\ Set(r, [reqs[r] EXCEPT !.subscription = SelectStatus(subscriptions, reqs[r].userId),
                              !.pc = "count"])
    /\ UNCHANGED <<now, Stores, stripeCustomers, faults>>

MeCount(r) ==
    /\ reqs[r].handler = "me" /\ reqs[r].pc = "count"
    /\ LET n == meUsageCount(usage_tracking, reqs[r].userId, now - WEEK)
       IN Set(r, RespondUsage(reqs[r], n, IF IsPremium(reqs[r].subscription)
                                          THEN PREMIUM_LIMIT ELSE FREE_LIMIT))
    /\ UNCHANGED <<now, Stores, stripeCustomers, faults>>

\* --------------------------------------- POST /api/subscription/checkout

\* SELECT stripe_customer_id FROM subscriptions WHERE user_id = ?  (.first())
SelectCustomerId(tbl, u) ==
    IF RowsOfUser(tbl, u) = {} THEN NoId
    ELSE tbl[Min(RowsOfUser(tbl, u))].stripe_customer_id

\* UPDATE subscriptions SET stripe_customer_id = ?, updated_at = ? WHERE user_id = ?
SetCustomerId(tbl, customerId, t, u) ==
    [i \in DOMAIN tbl |->
        IF tbl[i].user_id = u
        THEN [tbl[i] EXCEPT !.stripe_customer_id = customerId, !.updated_at = t]
        ELSE tbl[i]]

InsertSubscriptionActive(tbl, u, customerId, t) ==
    Append(tbl, [user_id |-> u, stripe_customer_id |-> customerId,
                 stripe_subscription_id |-> NoId, plan |-> "premium_monthly",
                 status |-> "active", current_period_end |-> NoTime,
                 created_at |-> t, updated_at |-> t])

\* INSERT INTO subscriptions (id, user_id, stripe_customer_id, plan, status,
\*                            created_at, updated_at)
InsertSubscription(tbl, u, customerId, t) ==
    Append(tbl, [user_id |-> u, stripe_customer_id |-> customerId,
                 stripe_subscription_id |-> NoId, plan |-> "free",
                 status |-> "inactive", current_period_end |-> NoTime,
                 created_at |-> t, updated_at |-> t])

BeginCheckout(r, token, body) ==
    /\ Free(r)
    /\ LET rec == [Idle EXCEPT !.handler = "checkout", !.body = body]
       IN Set(r, CASE token = NULL      -> Respond(rec, 401, "UNAUTHORIZED")
                 [] body = "invalid"    -> Respond(rec, 400, "INVALID_BODY")
                 [] body \notin Plans   -> Respond(rec, 400, "INVALID_PLAN")
                 [] OTHER               -> [rec EXCEPT !.pc = "select", !.userId = token])
    /\ UNCHANGED <<now, Stores, stripeCustomers, faults>>

CheckoutSelect(r) ==
    /\ reqs[r].handler = "checkout" /\ reqs[r].pc = "select"
    /\ LET customerId == SelectCustomerId(subscriptions, reqs[r].userId)
       IN Set(r, [reqs[r] EXCEPT
                    !.hasRow = RowsOfUser(subscriptions, reqs[r].userId) # {},
                    !.customerId = customerId,
                    !.pc = IF customerId = NoId THEN "customer" ELSE "session"])
    /\ UNCHANGED <<now, Stores, stripeCustomers, faults>>

\* stripe.customers.create: Stripe hands out a customer id it never used before.
CheckoutCustomer(r) ==
    /\ reqs[r].handler = "checkout" /\ reqs[r].pc = "customer"
    /\ stripeCustomers' = stripeCustomers + 1
    /\ Set(r, [reqs[r] EXCEPT !.customerId = stripeCustomers + 1, !.pc = "save"])
    /\ UNCHANGED <<now, Stores, faults>>

CheckoutSave(r) ==
    /\ reqs[r].handler = "checkout" /\ reqs[r].pc = "save"
    /\ LET tbl == IF reqs[r].hasRow
                  THEN SetCustomerId(subscriptions, reqs[r].customerId, now, reqs[r].userId)
                  ELSE InsertSubscription(subscriptions, reqs[r].userId,
                                          reqs[r].customerId, now)
       IN IF Unique(tbl)
          THEN /\ subscriptions' = tbl
               /\ Set(r, [reqs[r] EXCEPT !.pc = "session"])
          ELSE /\ Set(r, InternalError(reqs[r]))
               /\ UNCHANGED subscriptions
    /\ UNCHANGED <<now, usage_tracking, entry, IMAGES, stripeCustomers, faults>>

\* stripe.checkout.sessions.create
CheckoutSession(r) ==
    /\ reqs[r].handler = "checkout" /\ reqs[r].pc = "session"
    /\ Set(r, Respond(reqs[r], 200, "OK"))
    /\ UNCHANGED <<now, Stores, stripeCustomers, faults>>

\* ------------------------------------------------ POST /api/webhooks/stripe

\* session.metadata?.plan || 'premium_monthly'
PlanOf(event) == IF event.plan = NULL THEN "premium_monthly" ELSE event.plan

CheckoutCompletedExtending(tbl, subscriptionId, plan, currentPeriodEnd, t, u) ==
    [i \in DOMAIN tbl |->
        IF tbl[i].user_id = u
        THEN [tbl[i] EXCEPT !.stripe_subscription_id = subscriptionId,
                            !.plan = plan,
                            !.status = "active",
                            !.current_period_end =
                                IF @ = NoTime THEN currentPeriodEnd
                                ELSE @ + currentPeriodEnd,
                            !.updated_at = t]
        ELSE tbl[i]]

\* UPDATE subscriptions SET stripe_subscription_id = ?, plan = ?, status = 'active',
\*        current_period_end = ?, updated_at = ? WHERE user_id = ?
CheckoutCompleted(tbl, subscriptionId, plan, currentPeriodEnd, t, u) ==
    [i \in DOMAIN tbl |->
        IF tbl[i].user_id = u
        THEN [tbl[i] EXCEPT !.stripe_subscription_id = subscriptionId,
                            !.plan = plan,
                            !.status = "active",
                            !.current_period_end = currentPeriodEnd,
                            !.updated_at = t]
        ELSE tbl[i]]

SubscriptionUpdatedEveryRow(tbl, status, currentPeriodEnd, t, customerId) ==
    [i \in DOMAIN tbl |->
        [tbl[i] EXCEPT !.status = status,
                       !.current_period_end = currentPeriodEnd,
                       !.updated_at = t]]

\* UPDATE subscriptions SET status = ?, current_period_end = ?, updated_at = ?
\*        WHERE stripe_customer_id = ?
SubscriptionUpdated(tbl, status, currentPeriodEnd, t, customerId) ==
    [i \in DOMAIN tbl |->
        IF tbl[i].stripe_customer_id = customerId
        THEN [tbl[i] EXCEPT !.status = status,
                            !.current_period_end = currentPeriodEnd,
                            !.updated_at = t]
        ELSE tbl[i]]

SubscriptionDeletedClearingPeriod(tbl, t, customerId) ==
    [i \in DOMAIN tbl |->
        IF tbl[i].stripe_customer_id = customerId
        THEN [tbl[i] EXCEPT !.status = "canceled", !.current_period_end = NoTime,
                            !.updated_at = t]
        ELSE tbl[i]]

\* UPDATE subscriptions SET status = 'canceled', updated_at = ?
\*        WHERE stripe_customer_id = ?
SubscriptionDeleted(tbl, t, customerId) ==
    [i \in DOMAIN tbl |->
        IF tbl[i].stripe_customer_id = customerId
        THEN [tbl[i] EXCEPT !.status = "canceled", !.updated_at = t]
        ELSE tbl[i]]

DispatchEveryType(event) ==
    CASE event.type = "checkout.session.completed" ->
            IF event.user_id # NULL /\ event.subscription # NoId
            THEN "retrieve" ELSE "done"
      [] OTHER -> "write"

\* switch (event.type): the first await of the chosen case, or "done" when the
\* case has none (an event type with no case, a completed checkout without
\* user id or subscription id) and the handler goes on to its 200 response.
Dispatch(event) ==
    CASE event.type = "checkout.session.completed" ->
            IF event.user_id # NULL /\ event.subscription # NoId
            THEN "retrieve" ELSE "done"
      [] event.type \in {"customer.subscription.updated",
                         "customer.subscription.deleted"} -> "write"
      [] OTHER -> "done"

BeginWebhookUnverified(r, signature, event) ==
    /\ Free(r)
    /\ LET rec == [Idle EXCEPT !.handler = "webhook", !.signature = signature,
                               !.event = event]
       IN Set(r, CASE signature = "missing" -> Respond(rec, 400, "MISSING_SIGNATURE")
                 [] Dispatch(event) = "done" -> Respond(rec, 200, "OK")
                 [] OTHER -> [rec EXCEPT !.pc = Dispatch(event)])
    /\ UNCHANGED <<now, Stores, stripeCustomers, faults>>

\* Signature check and the switch on event.type, up to the first await of the
\* chosen case.
BeginWebhook(r, signature, event) ==
    /\ Free(r)
    /\ LET rec == [Idle EXCEPT !.handler = "webhook", !.signature = signature,
                               !.event = event]
       IN Set(r, CASE signature = "missing" -> Respond(rec, 400, "MISSING_SIGNATURE")
                 [] signature = "invalid" -> Respond(rec, 400, "INVALID_SIGNATURE")
                 [] Dispatch(event) = "done" -> Respond(rec, 200, "OK")
                 [] OTHER -> [rec EXCEPT !.pc = Dispatch(event)])
    /\ UNCHANGED <<now, Stores, stripeCustomers, faults>>

\* stripe.subscriptions.retrieve; event.current_period_end of a completed
\* checkout stands for the period end (seconds) of the subscription object
\* Stripe returns here.
WebhookRetrieve(r) ==
    /\ reqs[r].handler = "webhook" /\ reqs[r].pc = "retrieve"
    /\ Set(r, [reqs[r] EXCEPT
                  !.currentPeriodEnd = reqs[r].event.current_period_end * 1000,
                  !.pc = "write"])
    /\ UNCHANGED <<now, Stores, stripeCustomers, faults>>

WebhookWriteInSeconds(r) ==
    /\ reqs[r].handler = "webhook" /\ reqs[r].pc = "write"
    /\ LET ev == reqs[r].event
           tbl == CASE ev.type = "checkout.session.completed" ->
                         CheckoutCompleted(subscriptions, ev.subscription, PlanOf(ev),
                                           reqs[r].currentPeriodEnd, now, ev.user_id)
                    [] ev.type = "customer.subscription.updated" ->
                         SubscriptionUpdated(subscriptions, ev.status,
                                             ev.current_period_end, now,
                                             ev.customer)
                    [] OTHER ->
                         SubscriptionDeleted(subscriptions, now, ev.customer)
       IN IF Unique(tbl)
          THEN /\ subscriptions' = tbl
               /\ Set(r, Respond(reqs[r], 200, "OK"))
          ELSE /\ Set(r, InternalError(reqs[r]))
               /\ UNCHANGED subscriptions
    /\ UNCHANGED <<now, usage_tracking, entry, IMAGES, stripeCustomers, faults>>

WebhookWrite(r) ==
    /\ reqs[r].handler = "webhook" /\ reqs[r].pc = "write"
    /\ LET ev == reqs[r].event
           tbl == CASE ev.type = "checkout.session.completed" ->
                         CheckoutCompleted(subscriptions, ev.subscription, PlanOf(ev),
                                           reqs[r].currentPeriodEnd, now, ev.user_id)
                    [] ev.type = "customer.subscription.updated" ->
                         SubscriptionUpdated(subscriptions, ev.status,
                                             ev.current_period_end * 1000, now,
                                             ev.customer)
                    [] OTHER ->
                         SubscriptionDeleted(subscriptions, now, ev.customer)
       IN IF Unique(tbl)
          THEN /\ subscriptions' = tbl
               /\ Set(r, Respond(reqs[r], 200, "OK"))
          ELSE /\ Set(r, InternalError(reqs[r]))
               /\ UNCHANGED subscriptions
    /\ UNCHANGED <<now, usage_tracking, entry, IMAGES, stripeCustomers, faults>>

\* ---------------------------------------------------------------- faults

\* The call request r is awaiting (a D1 statement, an R2 put, a Stripe call)
\* rejects.  Nothing in the handlers catches it, so it reaches fetch's catch.
\* Exceptions of env.AI.run and request.json() are caught inside the handlers
\* and are part of CloudAttempt and CloudParse.
Throw(r) ==
    /\ reqs[r].pc \notin {"idle", "done", "ai", "parse"}
    /\ faults < MaxFaults
    /\ faults' = faults + 1
    /\ Set(r, InternalError(reqs[r]))
    /\ UNCHANGED <<now, Stores, stripeCustomers>>

\* ------------------------------------------------------ events on the wire

Completed(u, plan, subscriptionId, periodEnd) ==
    [NoEvent EXCEPT !.type = "checkout.session.completed", !.user_id = u,
                    !.plan = plan, !.subscription = subscriptionId,
                    !.current_period_end = periodEnd]

Updated(customerId, status, periodEnd) ==
    [NoEvent EXCEPT !.type = "customer.subscription.updated",
                    !.customer = customerId, !.status = status,
                    !.current_period_end = periodEnd]

Deleted(customerId) ==
    [NoEvent EXCEPT !.type = "customer.subscription.deleted", !.customer = customerId]

Other == [NoEvent EXCEPT !.type = "invoice.paid"]

\* ------------------------------------------------- mobile journal store

\* Store calls that can be in flight at once.
Calls == {1, 2}

Journal(id, entry_text, image_url, synced) ==
    [id |-> id, entry_text |-> entry_text, image_url |-> image_url, synced |-> synced]

NoJournalId == <<"none", 0>>
NoJournal == Journal(NoJournalId, "", NULL, FALSE)

\* The local variables of one store call and its position: awaiting fetch()
\* ("fetch") or awaiting response.json() ("json").
NoCall ==
    [op |-> "none", pc |-> "idle", newJournal |-> NoJournal, journals |-> <<>>,
     apiJournal |-> NoJournalId, apiJournals |-> <<>>, shape |-> "none",
     unsyncedJournals |-> <<>>]

\* {...j, ...updates}.
Spread(j, updates) ==
    [k \in DOMAIN j |-> IF k \in DOMAIN updates THEN updates[k] ELSE j[k]]

IdsOf(list) == {list[i].id : i \in 1..Len(list)}

\* getJournalStorage().set('journals', JSON.stringify(list)): the stored text
\* parses back to the list it was made from.
Stored(list) == [present |-> TRUE, value |-> list]

NoStorage == [present |-> FALSE, value |-> <<>>]

\* The id the API gives the next entry it creates.
ServerId == <<"api", Len(remote) + 1>>

\* A journal of an API entry, as fetchJournalsFromAPI maps it.
RemoteJournal(e) == Journal(e.id, e.entry_text, NULL, TRUE)

\* The merge of fetchJournalsFromAPI: the unsynced local journals, then the
\* remote journals whose id no unsynced local journal has.
MergedKeepingLocal(localJournals, apiJournals) ==
    LET remoteJournals == [i \in 1..Len(apiJournals) |-> RemoteJournal(apiJournals[i])]
        unsyncedLocal == SelectSeq(localJournals, LAMBDA j : ~j.synced)
    IN localJournals
         \o SelectSeq(remoteJournals, LAMBDA j : j.id \notin IdsOf(unsyncedLocal))

Merged(localJournals, apiJournals) ==
    LET remoteJournals == [i \in 1..Len(apiJournals) |-> RemoteJournal(apiJournals[i])]
        unsyncedLocal == SelectSeq(localJournals, LAMBDA j : ~j.synced)
    IN unsyncedLocal
         \o SelectSeq(remoteJournals, LAMBDA j : j.id \notin IdsOf(unsyncedLocal))

Return(c) == calls' = [calls EXCEPT ![c] = NoCall]

Await(c, rec) == calls' = [calls EXCEPT ![c] = rec]

LoadJournals ==
    /\ storage.present
    /\ journals' = storage.value
    /\ UNCHANGED <<isLoading, error, storage, remote, generated, calls>>

\* addJournal up to its await on fetch(): the new journal under a generated
\* id is appended and persisted; the call keeps the list it wrote.
AddJournal(c, entryText) ==
    /\ calls[c].op = "none"
    /\ generated < MaxAdds
    /\ LET newJournal == Journal(<<"tmp", generated + 1>>, entryText, NULL, FALSE)
           list == Append(journals, newJournal)
       IN /\ journals' = list
          /\ storage' = Stored(list)
          /\ Await(c, [NoCall EXCEPT !.op = "add", !.pc = "fetch",
                                     !.newJournal = newJournal, !.journals = list])
    /\ generated' = generated + 1
    /\ UNCHANGED <<isLoading, error, remote>>

\* POST /api/journals answers: 201 with the id of the entry the API created,
\* or the request fails (no answer, or an answer that is not ok) and addJournal
\* returns the journal as it was added.
AddResponse(c) ==
    /\ calls[c].op = "add" /\ calls[c].pc = "fetch"
    /\ \/ /\ Len(remote) < MaxRemote
          /\ remote' = Append(remote, [id |-> ServerId,
                                       entry_text |-> calls[c].newJournal.entry_text])
          /\ Await(c, [calls[c] EXCEPT !.pc = "json", !.apiJournal = ServerId])
       \/ /\ Return(c)
          /\ UNCHANGED remote
    /\ UNCHANGED <<journals, isLoading, error, storage, generated>>

\* response.json() resolves: the list the call wrote before its await, with
\* the new journal replaced by its synced copy under the API id, is set and
\* persisted. Or it rejects and the catch returns the journal as added.
AddJson(c) ==
    /\ calls[c].op = "add" /\ calls[c].pc = "json"
    /\ \/ LET updatedJournal == [calls[c].newJournal EXCEPT
                                    !.id = calls[c].apiJournal, !.synced = TRUE]
              replace(j) == IF j.id = calls[c].newJournal.id THEN updatedJournal ELSE j
              updatedJournals == [i \in 1..Len(calls[c].journals) |-> replace(calls[c].journals[i])]
          IN /\ journals' = updatedJournals
             /\ storage' = Stored(updatedJournals)
       \/ UNCHANGED <<journals, storage>>
    /\ Return(c)
    /\ UNCHANGED <<isLoading, error, remote, generated>>

UpdateJournal(id, updates) ==
    LET update(j) == IF j.id = id THEN Spread(j, updates) ELSE j
        list == [i \in 1..Len(journals) |-> update(journals[i])]
    IN /\ journals' = list
       /\ storage' = Stored(list)
       /\ UNCHANGED <<isLoading, error, remote, generated, calls>>

\* deleteJournal: the journal is removed and the list persisted; a synced
\* journal is then deleted at the API, whose answer is not looked at.
DeleteJournal(c, id) ==
    /\ calls[c].op = "none"
    /\ LET found == SelectSeq(journals, LAMBDA j : j.id = id)
           list == SelectSeq(journals, LAMBDA j : j.id # id)
       IN /\ journals' = list
          /\ storage' = Stored(list)
          /\ IF found # <<>> /\ found[1].synced
             THEN Await(c, [NoCall EXCEPT !.op = "delete", !.pc = "fetch"])
             ELSE UNCHANGED calls
    /\ UNCHANGED <<isLoading, error, remote, generated>>

\* DELETE /api/journals/:id: the API has no such route and answers 404; the
\* entry stays.
DeleteResponse(c) ==
    /\ calls[c].op = "delete" /\ calls[c].pc = "fetch"
    /\ Return(c)
    /\ UNCHANGED <<journals, isLoading, error, storage, remote, generated>>

\* The loop of syncJournals moves on to the next unsynced journal, or ends.
SyncNext(c) ==
    IF Len(calls[c].unsyncedJournals) > 1
    THEN Await(c, [calls[c] EXCEPT !.pc = "fetch", !.apiJournal = NoJournalId,
                                   !.unsyncedJournals = Tail(@)])
    ELSE Return(c)

SyncJournals(c) ==
    /\ calls[c].op = "none"
    /\ LET unsyncedJournals == SelectSeq(journals, LAMBDA j : ~j.synced)
       IN /\ unsyncedJournals # <<>>
          /\ Await(c, [NoCall EXCEPT !.op = "sync", !.pc = "fetch",
                                     !.unsyncedJournals = unsyncedJournals])
    /\ UNCHANGED <<journals, isLoading, error, storage, remote, generated>>

SyncResponse(c) ==
    /\ calls[c].op = "sync" /\ calls[c].pc = "fetch"
    /\ \/ /\ Len(remote) < MaxRemote
          /\ remote' = Append(remote, [id |-> ServerId,
                                       entry_text |-> calls[c].unsyncedJournals[1].entry_text])
          /\ Await(c, [calls[c] EXCEPT !.pc = "json", !.apiJournal = ServerId])
       \/ /\ SyncNext(c)
          /\ UNCHANGED remote
    /\ UNCHANGED <<journals, isLoading, error, storage, generated>>

SyncJson(c) ==
    /\ calls[c].op = "sync" /\ calls[c].pc = "json"
    /\ \/ LET update(j) == IF j.id = calls[c].unsyncedJournals[1].id
                           THEN Spread(j, [id |-> calls[c].apiJournal, synced |-> TRUE])
                           ELSE j
              list == [i \in 1..Len(journals) |-> update(journals[i])]
          IN /\ journals' = list
             /\ storage' = Stored(list)
       \/ UNCHANGED <<journals, storage>>
    /\ SyncNext(c)
    /\ UNCHANGED <<isLoading, error, remote, generated>>

FetchJournalsFromAPI(c) ==
    /\ calls[c].op = "none"
    /\ isLoading' = TRUE
    /\ error' = NULL
    /\ Await(c, [NoCall EXCEPT !.op = "fetch", !.pc = "fetch"])
    /\ UNCHANGED <<journals, storage, remote, generated>>

\* GET /api/journals answers 200 with the user's entries, as a list or, as
\* handleGetEntries sends them, as an object holding the list; or the request
\* fails and the catch sets error.
FetchResponse(c) ==
    /\ calls[c].op = "fetch" /\ calls[c].pc = "fetch"
    /\ \/ /\ \E shape \in {"array", "object"} :
                Await(c, [calls[c] EXCEPT !.pc = "json", !.shape = shape,
                                          !.apiJournals = remote])
          /\ UNCHANGED <<isLoading, error>>
       \/ /\ error' = "Failed to fetch journals"
          /\ isLoading' = FALSE
          /\ Return(c)
    /\ UNCHANGED <<journals, storage, remote, generated>>

\* response.json() resolves with a list: the merge is set and persisted.
\* With anything else apiJournals.map throws, and so does a body that does not
\* parse: the catch sets error.
FetchJson(c) ==
    /\ calls[c].op = "fetch" /\ calls[c].pc = "json"
    /\ \/ /\ calls[c].shape = "array"
          /\ LET mergedJournals == Merged(journals, calls[c].apiJournals)
             IN /\ journals' = mergedJournals
                /\ storage' = Stored(mergedJournals)
          /\ isLoading' = FALSE
          /\ UNCHANGED error
       \/ /\ error' = "Failed to fetch"
          /\ isLoading' = FALSE
          /\ UNCHANGED <<journals, storage>>
    /\ Return(c)
    /\ UNCHANGED <<remote, generated>>

\* ------------------------------------------------------------ the system

\* The store as created, on a device that never stored a journal.
InitStore ==
    /\ journals = <<>>
    /\ isLoading = FALSE
    /\ error = NULL
    /\ storage = NoStorage
    /\ remote = <<>>
    /\ generated = 0
    /\ calls = [c \in Calls |-> NoCall]

InitApi ==
    /\ now = 0
    /\ subscriptions = <<>>
    /\ usage_tracking = <<>>
    /\ entry = [e \in EntryIds |-> [user_id |-> "u1", image_url |-> NoUrl, updated_at |-> 0]]
    /\ IMAGES = <<>>
    /\ stripeCustomers = 0
    /\ reqs = [r \in Slots |-> Idle]
    /\ effects = [r \in Slots |-> <<>>]
    /\ faults = 0

Init == InitApi /\ InitStore

\* History of the store writes made by the steps of request r.
Log(r) ==
    effects' = [effects EXCEPT ![r] =
                  @ \o (IF IMAGES' # IMAGES THEN <<"put">> ELSE <<>>)
                    \o (IF entry' # entry THEN <<"entry">> ELSE <<>>)
                    \o (IF usage_tracking' # usage_tracking THEN <<"usage">> ELSE <<>>)
                    \o (IF subscriptions' # subscriptions THEN <<"subscription">> ELSE <<>>)]

Reset(r) == effects' = [effects EXCEPT ![r] = <<>>]

BeginImage(r, tokens) ==
    \/ \E token \in tokens, body \in {"ok", "no_image", "malformed"},
          entry_id \in EntryIds \cup {NULL} :
          BeginUpload(r, token, body, entry_id)
    \/ \E token \in tokens,
          body \in {"ok", "invalid", "no_text", "no_journal"}, journal_id \in EntryIds :
          BeginCloud(r, token, body, journal_id)
    \/ \E token \in tokens : BeginMe(r, token)

BeginBilling(r, tokens, events) ==
    \/ \E token \in tokens, body \in Plans \cup {"invalid", "bad_plan"} :
          BeginCheckout(r, token, body)
    \/ \E signature \in {"missing", "invalid", "valid"}, event \in events :
          BeginWebhook(r, signature, event)

Step(r) ==
    \/ UploadSub(r) \/ UploadCount(r) \/ UploadParse(r)
    \/ UploadPut(r) \/ UploadEntry(r) \/ UploadTrack(r)
    \/ CloudSub(r) \/ CloudCount(r) \/ CloudParse(r) \/ CloudAttempt(r)
    \/ CloudPut(r) \/ CloudEntry(r) \/ CloudTrack(r)
    \/ MeSub(r) \/ MeCount(r)
    \/ CheckoutSelect(r) \/ CheckoutCustomer(r) \/ CheckoutSave(r) \/ CheckoutSession(r)
    \/ WebhookRetrieve(r) \/ WebhookWrite(r)

\* Requests handled one at a time: a request is accepted only when no other
\* request is in flight.
Quiescent == \A r \in Slots : Free(r)

\* The event Stripe sends when user u1's checkout completes.
EventsOfU1 == {Completed("u1", "premium_monthly", 1, 86400)}

\* Every shape of event the webhook handler distinguishes: checkouts of u1
\* with and without each metadata field, one checkout of u2, and lifecycle
\* events for customers that exist and that do not.
EventsAll ==
    {Completed(u, plan, subscriptionId, periodEnd) :
        u \in {"u1", NULL}, plan \in Plans \cup {NULL},
        subscriptionId \in {NoId, 1}, periodEnd \in PeriodEnds}
    \cup {Completed("u2", "premium_yearly", 2, 86400)}
    \cup {Updated(customerId, status, periodEnd) :
        customerId \in 1..2, status \in ProviderStatuses, periodEnd \in PeriodEnds}
    \cup {Deleted(customerId) : customerId \in 1..2}
    \cup {Other}

\* One user's requests, handled one at a time, at the instants of Times.
Next ==
    \/ Tick /\ UNCHANGED effects /\ UNCHANGED storeVars
    \/ Quiescent /\ BeginImage(1, {"u1", NULL}) /\ Reset(1) /\ UNCHANGED storeVars
    \/ Quiescent /\ BeginBilling(1, {"u1"}, EventsOfU1) /\ Reset(1) /\ UNCHANGED storeVars
    \/ Step(1) /\ Log(1) /\ UNCHANGED storeVars

Spec == Init /\ [][Next]_vars

\* Billing only: both users' checkouts and every event shape.
NextBilling ==
    \/ Tick /\ UNCHANGED effects /\ UNCHANGED storeVars
    \/ Quiescent /\ BeginBilling(1, Users \cup {NULL}, EventsAll) /\ Reset(1)
          /\ UNCHANGED storeVars
    \/ Step(1) /\ Log(1) /\ UNCHANGED storeVars

SpecBilling == Init /\ [][NextBilling]_vars

\* The events of the race: the checkout of u1 completing, and lifecycle events
\* for the customers the two checkout requests may have created.
EventsRace ==
    {Completed("u1", "premium_monthly", 1, 86400)}
    \cup {Updated(customerId, "past_due", 86400) : customerId \in 1..2}
    \cup {Deleted(customerId) : customerId \in 1..2}

\* Two requests in flight at once, interleaving at their awaits: checkout
\* requests of either user and webhook deliveries.
NextRace ==
    \/ \E r \in Slots : Free(r) /\ BeginBilling(r, Users, EventsRace) /\ Reset(r)
                           /\ UNCHANGED storeVars
    \/ \E r \in Slots : Step(r) /\ Log(r) /\ UNCHANGED storeVars

SpecRace == Init /\ [][NextRace]_vars

\* A gated request with a well-formed body for the caller's own entry.
BeginGated(r, token) ==
    \/ BeginUpload(r, token, "ok", "e1")
    \/ BeginCloud(r, token, "ok", "e1")

\* Two gated requests of one user in flight at once, interleaving at their
\* awaits.
NextOvershoot ==
    \/ \E r \in Slots : Free(r) /\ BeginGated(r, "u1") /\ Reset(r) /\ UNCHANGED storeVars
    \/ \E r \in Slots : Step(r) /\ Log(r) /\ UNCHANGED storeVars

SpecOvershoot == Init /\ [][NextOvershoot]_vars

\* One user's gated requests, checkouts and webhook deliveries, handled one at
\* a time, with up to MaxFaults awaited calls rejecting.
NextFaults ==
    \/ Quiescent /\ BeginGated(1, "u1") /\ Reset(1) /\ UNCHANGED storeVars
    \/ Quiescent /\ BeginBilling(1, {"u1"}, EventsRace) /\ Reset(1) /\ UNCHANGED storeVars
    \/ Step(1) /\ Log(1) /\ UNCHANGED storeVars
    \/ Throw(1) /\ UNCHANGED effects /\ UNCHANGED storeVars

SpecFaults == Init /\ [][NextFaults]_vars

\* What a device may hold when the app starts: nothing, a journal added while
\* offline, or a journal the API holds too.
InitJournal ==
    /\ InitApi
    /\ journals = <<>>
    /\ isLoading = FALSE
    /\ error = NULL
    /\ generated = 0
    /\ calls = [c \in Calls |-> NoCall]
    /\ \/ storage = NoStorage /\ remote = <<>>
       \/ /\ storage = Stored(<<Journal(<<"tmp", 0>>, "a", NULL, FALSE)>>)
          /\ remote = <<>>
       \/ /\ storage = Stored(<<Journal(<<"api", 1>>, "a", NULL, TRUE)>>)
          /\ remote = <<[id |-> <<"api", 1>>, entry_text |-> "a"]>>

\* The calls the screens make on the store, interleaving at their awaits.
NextJournal ==
    \/ LoadJournals /\ UNCHANGED apiVars
    \/ \E c \in Calls : AddJournal(c, "a") /\ UNCHANGED apiVars
    \/ \E c \in Calls : AddResponse(c) /\ UNCHANGED apiVars
    \/ \E c \in Calls : AddJson(c) /\ UNCHANGED apiVars
    \/ \E id \in IdsOf(journals) : UpdateJournal(id, [image_url |-> "img"]) /\ UNCHANGED apiVars
    \/ \E c \in Calls, id \in IdsOf(journals) : DeleteJournal(c, id) /\ UNCHANGED apiVars
    \/ \E c \in Calls : DeleteResponse(c) /\ UNCHANGED apiVars
    \/ \E c \in Calls : FetchJournalsFromAPI(c) /\ UNCHANGED apiVars
    \/ \E c \in Calls : FetchResponse(c) /\ UNCHANGED apiVars
    \/ \E c \in Calls : FetchJson(c) /\ UNCHANGED apiVars

SpecJournal == InitJournal /\ [][NextJournal]_vars

\* Every operation of the store: the calls of the screens and syncJournals.
NextStore ==
    \/ NextJournal
    \/ \E c \in Calls : SyncJournals(c) /\ UNCHANGED apiVars
    \/ \E c \in Calls : SyncResponse(c) /\ UNCHANGED apiVars
    \/ \E c \in Calls : SyncJson(c) /\ UNCHANGED apiVars

SpecStore == InitJournal /\ [][NextStore]_vars

\* ================================================================ claims

\* The step in which request r takes its usage count.
Counts(r) == reqs[r].pc = "count" /\ reqs'[r] # reqs[r]

\* Usage events of u of either qualifying tag in the trailing 7-day window
\* ending at T, lower bound included.
Qualifying(u, T) ==
    Cardinality({i \in DOMAIN usage_tracking :
                    /\ usage_tracking[i].user_id = u
                    /\ usage_tracking[i].action \in QualifyingTags
                    /\ usage_tracking[i].created_at >= T - WEEK
                    /\ usage_tracking[i].created_at <= T})

\* C1 (quota boundary): when an upload or generate-cloud request of a free user
\* takes its quota decision, exactly 2 qualifying events in the trailing 7 days
\* let it pass, and exactly 3 get it denied with 403 LIMIT_REACHED.
C1_QuotaBoundary ==
    [][\A r \in Slots :
          (reqs[r].handler \in {"upload", "cloud"} /\ Counts(r)) =>
              /\ Qualifying(reqs[r].userId, now) = FREE_LIMIT - 1
                    => reqs'[r].pc = "parse"
              /\ Qualifying(reqs[r].userId, now) = FREE_LIMIT
                    => reqs'[r].status = 403 /\ reqs'[r].code = "LIMIT_REACHED"]_vars

\* C2 (feature gate): a generate-cloud request of a free user with no usage
\* event in the window comes out of the gates denied with 403 PREMIUM_REQUIRED.
C2_PremiumRequired ==
    [][\A r \in Slots :
          (reqs[r].handler = "cloud" /\ Counts(r)
             /\ Qualifying(reqs[r].userId, now) = 0) =>
              reqs'[r].status = 403 /\ reqs'[r].code = "PREMIUM_REQUIRED"]_vars

\* A user whose subscription row, if any, still has the status it was created
\* with: no webhook has ever made the user premium.
AlwaysFree(u) == SelectStatus(subscriptions, u) \in {NULL, "inactive"}

\* C3 (sequential weekly cap): with requests handled one at a time, no 7-day
\* window holds more than 3 usage events (of either tag) of a user who was free
\* whenever they were recorded.
C3_WeeklyCap ==
    \A u \in Users :
        AlwaysFree(u) =>
            \A i \in DOMAIN usage_tracking :
                usage_tracking[i].user_id = u =>
                    Qualifying(u, usage_tracking[i].created_at + WEEK) <= FREE_LIMIT

\* Events of u of either tag that the handlers' own window (created_at > weekAgo)
\* holds.
UnionCount(u, weekAgo) ==
    Cardinality({i \in DOMAIN usage_tracking :
                    /\ usage_tracking[i].user_id = u
                    /\ usage_tracking[i].action \in QualifyingTags
                    /\ usage_tracking[i].created_at > weekAgo})

\* C4 (union of tags): each of the three counts covers both action tags: the
\* figure /api/user/me reports is the number of events of either tag, and
\* upload and generate-cloud deny exactly when that number has reached 3.
C4_UnionOfTags ==
    [][\A r \in Slots :
          Counts(r) =>
              LET n == UnionCount(reqs[r].userId, now - WEEK)
              IN IF reqs[r].handler = "me"
                 THEN reqs'[r].imagesThisWeek = n
                 ELSE (n >= FREE_LIMIT) <=> (reqs'[r].code = "LIMIT_REACHED")]_vars

\* The action tags handler h looks for.
TagsOf(h) == IF h = "cloud" THEN QualifyingTags ELSE {"image_generated"}

\* Events of u that handler h's query would count at time T if the lower bound
\* T - 604800000 belongs to the window and T - 604800000 - 1 does not.
InclusiveCount(h, u, T) ==
    Cardinality({i \in DOMAIN usage_tracking :
                    /\ usage_tracking[i].user_id = u
                    /\ usage_tracking[i].action \in TagsOf(h)
                    /\ usage_tracking[i].created_at >= T - WEEK})

\* C5 (window correctness): every count includes the event stamped exactly
\* T - 604800000 and excludes the one stamped T - 604800000 - 1.
C5_InclusiveWindow ==
    [][\A r \in Slots :
          Counts(r) =>
              LET n == InclusiveCount(reqs[r].handler, reqs[r].userId, now)
              IN IF reqs[r].handler = "me"
                 THEN reqs'[r].imagesThisWeek = n
                 ELSE (n >= FREE_LIMIT) <=> (reqs'[r].code = "LIMIT_REACHED")]_vars

\* C6 (premium bypass): a request that read status 'active' from the caller's
\* subscription row is never answered LIMIT_REACHED, and no request is answered
\* LIMIT_REACHED while the caller's row is active.
C6_PremiumBypass ==
    [][\A r \in Slots :
          (reqs[r].pc # "done" /\ reqs'[r].code = "LIMIT_REACHED") =>
              /\ reqs[r].handler \in {"upload", "cloud"}
              /\ reqs[r].subscription # "active"
              /\ SelectStatus(subscriptions, reqs[r].userId) # "active"]_vars

\* A premium request got past the quota gate with 3 or more events in the window.
C6_Witness ==
    \E r \in Slots :
        /\ reqs[r].handler \in {"upload", "cloud"}
        /\ reqs[r].pc = "parse"
        /\ reqs[r].subscription = "active"
        /\ UnionCount(reqs[r].userId, now - WEEK) >= FREE_LIMIT

\* C7 (no quota consumption on failure): a generate-cloud request that ended
\* with AI_GENERATION_FAILED has written nothing: no usage event, no image, no
\* entry update.
C7_NoChargeOnFailure ==
    \A r \in Slots :
        (reqs[r].handler = "cloud" /\ reqs[r].code = "AI_GENERATION_FAILED") =>
            effects[r] = <<>>

\* A generate-cloud request gave up after its last attempt.
C7_Witness ==
    \E r \in Slots :
        /\ reqs[r].handler = "cloud" /\ reqs[r].pc = "done"
        /\ reqs[r].code = "AI_GENERATION_FAILED" /\ reqs[r].attempts = 3

\* C8 (bounded retry): at most 3 backend invocations per request; a request
\* fails with 503 AI_GENERATION_FAILED exactly after 3 failed invocations; the
\* invocation that succeeds is the last one.
C8_BoundedRetry ==
    /\ [](\A r \in Slots :
            /\ reqs[r].attempts <= 3
            /\ reqs[r].code = "AI_GENERATION_FAILED"
                  => reqs[r].status = 503 /\ reqs[r].attempts = 3
            /\ reqs[r].pc = "ai"
                  => reqs[r].attempts = reqs[r].retries /\ reqs[r].retries < 3
            /\ reqs[r].imageBuffer => reqs[r].attempts = reqs[r].retries + 1)
    /\ [][\A r \in Slots :
            (reqs[r].handler = "cloud" /\ reqs[r].pc \in {"put", "entry", "track"}) =>
                reqs'[r].attempts = reqs[r].attempts]_vars

\* The third invocation succeeded and the request went on to store the image.
C8_Witness ==
    \E r \in Slots :
        /\ reqs[r].handler = "cloud" /\ reqs[r].pc = "put"
        /\ reqs[r].imageBuffer /\ reqs[r].attempts = 3

\* The waits a request has made once it is at or past its k-th invocation.
WaitsBefore(k) == SubSeq(<<2000, 4000>>, 1, k - 1)

\* C9 (backoff schedule): 2 s before the second invocation, 4 s before the
\* third, nothing before the first and nothing after the last failure; a request
\* answered 200 at its third invocation has waited 2 s + 4 s.
C9_BackoffSchedule ==
    \A r \in Slots :
        /\ reqs[r].pc = "ai" => reqs[r].waits = WaitsBefore(reqs[r].attempts + 1)
        /\ (reqs[r].pc # "ai" /\ reqs[r].attempts > 0)
              => reqs[r].waits = WaitsBefore(reqs[r].attempts)
        /\ reqs[r].attempts = 0 => reqs[r].waits = <<>>

\* A request was answered 200 after two failed invocations and two waits.
C9_Witness ==
    \E r \in Slots :
        /\ reqs[r].handler = "cloud" /\ reqs[r].status = 200
        /\ reqs[r].attempts = 3 /\ reqs[r].waits = <<2000, 4000>>

\* The subscriptions table without updated_at.
StripUpdatedAt(tbl) == [i \in DOMAIN tbl |-> [tbl[i] EXCEPT !.updated_at = 0]]

\* What handling the checkout.session.completed event ev does to table tbl at
\* time t when Stripe reports period end currentPeriodEnd.
Processed(tbl, ev, currentPeriodEnd, t) ==
    LET new == CheckoutCompleted(tbl, ev.subscription, PlanOf(ev), currentPeriodEnd,
                                 t, ev.user_id)
    IN IF Unique(new) THEN new ELSE tbl

\* C10 (webhook idempotency): once a checkout.session.completed event has been
\* processed, processing it again at any later time leaves the same rows with
\* the same stripe ids, plan, status and period end.
C10_Idempotent ==
    [][\A r \in Slots :
          (/\ reqs[r].handler = "webhook" /\ reqs[r].pc = "write"
           /\ reqs[r].event.type = "checkout.session.completed"
           /\ reqs'[r].pc = "done") =>
              \A t \in Times :
                  StripUpdatedAt(Processed(subscriptions', reqs[r].event,
                                           reqs[r].currentPeriodEnd, t))
                    = StripUpdatedAt(subscriptions')]_vars

\* The same event is about to be written a second time: the caller's row
\* already carries everything the event sets.
C10_Witness ==
    \E r \in Slots, i \in DOMAIN subscriptions :
        /\ reqs[r].handler = "webhook" /\ reqs[r].pc = "write"
        /\ reqs[r].event.type = "checkout.session.completed"
        /\ subscriptions[i].user_id = reqs[r].event.user_id
        /\ subscriptions[i].stripe_subscription_id = reqs[r].event.subscription
        /\ subscriptions[i].plan = PlanOf(reqs[r].event)
        /\ subscriptions[i].status = "active"
        /\ subscriptions[i].current_period_end = reqs[r].currentPeriodEnd
        /\ subscriptions[i].updated_at < now

\* C11 (checkout completion is an upsert): once a verified
\* checkout.session.completed event carrying user id U, plan P and a
\* subscription id has been handled, the table holds a row for U with status
\* 'active', plan P and the period end Stripe reported, whether or not U had a
\* row before.
C11_Upsert ==
    [][\A r \in Slots :
          (/\ reqs[r].handler = "webhook" /\ reqs[r].pc = "write"
           /\ reqs[r].event.type = "checkout.session.completed"
           /\ reqs[r].event.plan # NULL
           /\ reqs'[r].pc = "done") =>
              \E i \in DOMAIN subscriptions' :
                  /\ subscriptions'[i].user_id = reqs[r].event.user_id
                  /\ subscriptions'[i].status = "active"
                  /\ subscriptions'[i].plan = reqs[r].event.plan
                  /\ subscriptions'[i].current_period_end
                        = reqs[r].currentPeriodEnd]_vars

\* C12 (metadata guard): a checkout.session.completed event whose metadata
\* lacks the user id or the plan changes nothing in the subscriptions table.
C12_MetadataGuard ==
    [][\A r \in Slots :
          (/\ reqs[r].handler = "webhook"
           /\ reqs[r].event.type = "checkout.session.completed"
           /\ (reqs[r].event.user_id = NULL \/ reqs[r].event.plan = NULL)) =>
              subscriptions' = subscriptions]_vars

\* The lifecycle events keyed by Stripe's customer id.
Lifecycle == {"customer.subscription.updated", "customer.subscription.deleted"}

\* Some row of tbl carries customer id customerId.
Tracked(tbl, customerId) ==
    \E i \in DOMAIN tbl : tbl[i].stripe_customer_id = customerId

\* C13 (unknown customer no-op): a verified customer.subscription.updated or
\* customer.subscription.deleted event whose customer id matches no row leaves
\* the subscriptions table as it was and is answered 200.
C13_UnknownCustomerNoOp ==
    [][\A r \in Slots :
          (/\ reqs[r].handler = "webhook" /\ reqs[r].pc = "write"
           /\ reqs[r].event.type \in Lifecycle
           /\ ~Tracked(subscriptions, reqs[r].event.customer)
           /\ reqs'[r] # reqs[r]) =>
              /\ subscriptions' = subscriptions
              /\ reqs'[r].pc = "done" /\ reqs'[r].status = 200]_vars

\* An update for a customer nobody has is about to be written while another
\* customer's row exists.
C13_Witness ==
    \E r \in Slots :
        /\ reqs[r].handler = "webhook" /\ reqs[r].pc = "write"
        /\ reqs[r].event.type = "customer.subscription.updated"
        /\ subscriptions # <<>>
        /\ ~Tracked(subscriptions, reqs[r].event.customer)

\* C14 (signature first): a webhook request whose stripe-signature is missing
\* or invalid is answered 400 at once, having written nothing, and every write
\* to the subscriptions table made by a webhook request belongs to a request
\* whose signature was verified.
C14_SignatureFirst ==
    /\ [](\A r \in Slots :
            (reqs[r].handler = "webhook" /\ reqs[r].signature # "valid") =>
                /\ reqs[r].pc = "done" /\ reqs[r].status = 400
                /\ reqs[r].code \in {"MISSING_SIGNATURE", "INVALID_SIGNATURE"}
                /\ effects[r] = <<>>)
    /\ [][\A r \in Slots :
            /\ (reqs'[r] # reqs[r] /\ reqs'[r].handler = "webhook"
                  /\ reqs'[r].signature # "valid")
                  => UNCHANGED <<subscriptions, usage_tracking>>
            /\ (reqs'[r] # reqs[r] /\ reqs[r].handler = "webhook"
                  /\ subscriptions' # subscriptions)
                  => reqs[r].signature = "valid"]_vars

\* A webhook request with an invalid signature was turned away while there was
\* a subscription row it could have changed.
C14_Witness ==
    \E r \in Slots :
        /\ reqs[r].handler = "webhook" /\ reqs[r].signature = "invalid"
        /\ reqs[r].pc = "done" /\ reqs[r].status = 400
        /\ subscriptions # <<>>

\* Request r is a verified webhook of the given event type taking its write
\* step for a customer id that some row carries.
WritesTracked(r, type) ==
    /\ reqs[r].handler = "webhook" /\ reqs[r].pc = "write"
    /\ reqs[r].event.type = type
    /\ Tracked(subscriptions, reqs[r].event.customer)
    /\ reqs'[r] # reqs[r]

\* C15 (deleted -> canceled): a verified customer.subscription.deleted event
\* for a tracked customer id sets that row's status to 'canceled' whatever it
\* was, touches nothing else but updated_at in that row, changes no other row,
\* and the row's user is not premium afterwards.
C15_DeletedCancels ==
    [][\A r \in Slots :
          WritesTracked(r, "customer.subscription.deleted") =>
              /\ DOMAIN subscriptions' = DOMAIN subscriptions
              /\ \A i \in DOMAIN subscriptions :
                    IF subscriptions[i].stripe_customer_id = reqs[r].event.customer
                    THEN /\ subscriptions'[i] =
                              [subscriptions[i] EXCEPT !.status = "canceled",
                                                       !.updated_at = now]
                         /\ ~IsPremium(SelectStatus(subscriptions',
                                                    subscriptions[i].user_id))
                    ELSE subscriptions'[i] = subscriptions[i]]_vars

\* A deleted event is about to be written for an active customer while another
\* user has a row too.
C15_Witness ==
    \E r \in Slots, i, j \in DOMAIN subscriptions :
        /\ reqs[r].handler = "webhook" /\ reqs[r].pc = "write"
        /\ reqs[r].event.type = "customer.subscription.deleted"
        /\ subscriptions[i].stripe_customer_id = reqs[r].event.customer
        /\ subscriptions[i].status = "active"
        /\ subscriptions[i].current_period_end # NoTime
        /\ j # i

\* C16 (updated -> provider's status): a verified customer.subscription.updated
\* event for a tracked customer id sets that row's status to the status Stripe
\* reports and its current_period_end to Stripe's period end in milliseconds,
\* whatever the row's status was (a canceled row becomes active again), and
\* changes nothing else but updated_at.
C16_UpdatedOverwrites ==
    [][\A r \in Slots :
          WritesTracked(r, "customer.subscription.updated") =>
              /\ DOMAIN subscriptions' = DOMAIN subscriptions
              /\ \A i \in DOMAIN subscriptions :
                    IF subscriptions[i].stripe_customer_id = reqs[r].event.customer
                    THEN subscriptions'[i] =
                            [subscriptions[i] EXCEPT
                                !.status = reqs[r].event.status,
                                !.current_period_end =
                                    reqs[r].event.current_period_end * 1000,
                                !.updated_at = now]
                    ELSE subscriptions'[i] = subscriptions[i]]_vars

\* An update reporting 'active' is about to be written to a canceled row.
C16_Witness ==
    \E r \in Slots, i \in DOMAIN subscriptions :
        /\ reqs[r].handler = "webhook" /\ reqs[r].pc = "write"
        /\ reqs[r].event.type = "customer.subscription.updated"
        /\ reqs[r].event.status = "active"
        /\ subscriptions[i].stripe_customer_id = reqs[r].event.customer
        /\ subscriptions[i].status = "canceled"

\* User u has a row whose status is 'active', whatever its plan, Stripe ids
\* and period end are.
ActiveRow(u) ==
    \E i \in DOMAIN subscriptions :
        subscriptions[i].user_id = u /\ subscriptions[i].status = "active"

C18_AppendOnly ==
    [][/\ Len(usage_tracking') >= Len(usage_tracking)
       /\ SubSeq(usage_tracking', 1, Len(usage_tracking)) = usage_tracking]_vars

\* Two events are on record, the later one a week after the first, and a
\* webhook has since made their user premium.
C18_Witness ==
    /\ Len(usage_tracking) >= 2
    /\ usage_tracking[1].created_at < usage_tracking[Len(usage_tracking)].created_at
    /\ ActiveRow(usage_tracking[1].user_id)

\* The number of usage_tracking writes among the store writes of request r.
UsageWrites(r) ==
    Cardinality({i \in DOMAIN effects[r] : effects[r][i] = "usage"})

\* The action tag handler h records.
TagOf(h) == IF h = "cloud" THEN "cloud_image_generated" ELSE "image_generated"

\* C19 (one usage event per success): no request writes the ledger more than
\* once and no step appends more than one event; an upload or generate-cloud
\* request answered 200 has written it exactly once, and the step that
\* answers 200 appends exactly one event, for the caller, tagged
\* 'image_generated' (upload) or 'cloud_image_generated' (generate-cloud),
\* however many backend attempts were made.
C19_OneEventPerSuccess ==
    /\ [](\A r \in Slots :
            /\ UsageWrites(r) <= 1
            /\ (reqs[r].handler \in {"upload", "cloud"} /\ reqs[r].pc = "done"
                  /\ reqs[r].status = 200) => UsageWrites(r) = 1)
    /\ [][/\ Len(usage_tracking') <= Len(usage_tracking) + 1
          /\ \A r \in Slots :
                (reqs[r].handler \in {"upload", "cloud"} /\ reqs[r].pc # "done"
                   /\ reqs'[r].pc = "done" /\ reqs'[r].status = 200) =>
                    usage_tracking' =
                        Append(usage_tracking,
                               [user_id |-> reqs[r].userId,
                                action |-> TagOf(reqs[r].handler),
                                created_at |-> now])]_vars

\* A generate-cloud request was answered 200 at its third backend attempt and
\* the ledger's newest event is its one event.
C19_Witness ==
    \E r \in Slots :
        /\ reqs[r].handler = "cloud" /\ reqs[r].pc = "done" /\ reqs[r].status = 200
        /\ reqs[r].attempts = 3
        /\ UsageWrites(r) = 1
        /\ usage_tracking # <<>>
        /\ usage_tracking[Len(usage_tracking)].action = "cloud_image_generated"
        /\ usage_tracking[Len(usage_tracking)].user_id = reqs[r].userId

\* C20 (one row per user): in every state, two checkout requests of one user
\* racing past the 'no row' read included, no user has more than one
\* subscription row.
C20_OneRowPerUser ==
    \A u \in Users : Cardinality(RowsOfUser(subscriptions, u)) <= 1

\* Two checkout requests of one user both read 'no row' and both created a
\* Stripe customer; one inserted its row, the other's INSERT was refused.
C20_Witness ==
    \E r1, r2 \in Slots :
        /\ r1 # r2
        /\ reqs[r1].handler = "checkout" /\ reqs[r2].handler = "checkout"
        /\ reqs[r1].userId = reqs[r2].userId /\ reqs[r1].userId # NULL
        /\ reqs[r1].pc = "done" /\ reqs[r1].status = 200
        /\ reqs[r2].pc = "done" /\ reqs[r2].code = "INTERNAL_ERROR"
        /\ stripeCustomers = 2
        /\ Cardinality(RowsOfUser(subscriptions, reqs[r1].userId)) = 1

\* C21 (/api/user/me report): the response carries limit 999 exactly when the
\* caller's row is active and 3 otherwise, images_this_week is the number of
\* the caller's usage events (of either tag) in the trailing 7-day window, and
\* no step of the request changes the subscriptions table or the ledger.
C21_MeReport ==
    [][\A r \in Slots :
          /\ (reqs[r].handler = "me" /\ reqs'[r] # reqs[r])
                => UNCHANGED <<subscriptions, usage_tracking>>
          /\ (reqs[r].handler = "me" /\ Counts(r))
                => /\ reqs'[r].limit = (IF ActiveRow(reqs[r].userId)
                                        THEN PREMIUM_LIMIT ELSE FREE_LIMIT)
                   /\ reqs'[r].imagesThisWeek
                        = Qualifying(reqs[r].userId, now)]_vars

\* What billing decides about a row: status, plan, Stripe's subscription id and
\* the period end.
Billing(row) ==
    <<row.status, row.plan, row.stripe_subscription_id, row.current_period_end>>

\* Request r is a signature-verified webhook taking its write step.
VerifiedWrite(r) ==
    /\ reqs[r].handler = "webhook" /\ reqs[r].signature = "valid"
    /\ reqs[r].pc = "write" /\ reqs'[r] # reqs[r]

\* C22 (only webhooks change billing state): no step removes a row or changes
\* its user; status, plan, stripe_subscription_id and current_period_end of an
\* existing row change only in the write step of a verified webhook; a row
\* appears only through a checkout request of a user who had none, as plan
\* 'free' / status 'inactive'; and a customer id is only ever filled in by a
\* checkout request where it was missing.
C22_OnlyWebhooksChangeBilling ==
    [][/\ \A i \in DOMAIN subscriptions :
            /\ i \in DOMAIN subscriptions'
            /\ subscriptions'[i].user_id = subscriptions[i].user_id
            /\ Billing(subscriptions'[i]) # Billing(subscriptions[i])
                  => \E r \in Slots : VerifiedWrite(r)
            /\ subscriptions'[i].stripe_customer_id # subscriptions[i].stripe_customer_id
                  => /\ subscriptions[i].stripe_customer_id = NoId
                     /\ \E r \in Slots :
                           /\ reqs[r].handler = "checkout" /\ reqs'[r] # reqs[r]
                           /\ reqs[r].userId = subscriptions[i].user_id
       /\ \A i \in DOMAIN subscriptions' \ DOMAIN subscriptions :
            /\ subscriptions'[i].plan = "free"
            /\ subscriptions'[i].status = "inactive"
            /\ RowsOfUser(subscriptions, subscriptions'[i].user_id) = {}
            /\ \E r \in Slots :
                  /\ reqs[r].handler = "checkout" /\ reqs'[r] # reqs[r]
                  /\ reqs[r].userId = subscriptions'[i].user_id]_vars

\* A checkout request of a user whose row a webhook had made active has been
\* answered 200, and the row is still active with its plan and period end.
C22_Witness ==
    \E r \in Slots, i \in DOMAIN subscriptions :
        /\ reqs[r].handler = "checkout" /\ reqs[r].pc = "done" /\ reqs[r].status = 200
        /\ subscriptions[i].user_id = reqs[r].userId
        /\ subscriptions[i].status = "active"
        /\ subscriptions[i].plan = "premium_monthly"
        /\ subscriptions[i].current_period_end # NoTime
        /\ usage_tracking # <<>>

\* The event types handleStripeWebhook has a case for.
HandledTypes ==
    {"checkout.session.completed", "customer.subscription.updated",
     "customer.subscription.deleted"}

\* C23 (other event types are accepted and ignored): a verified event of a
\* type the handler has no case for never reaches a Stripe lookup or a
\* database write, and a verified webhook that is answered without either is
\* answered 200 with the subscriptions table unchanged.
C23_OtherTypesIgnored ==
    /\ [](\A r \in Slots :
            (reqs[r].handler = "webhook" /\ reqs[r].pc \in {"retrieve", "write"})
                => reqs[r].event.type \in HandledTypes)
    /\ [][\A r \in Slots :
            (/\ Free(r) /\ reqs'[r] # reqs[r]
             /\ reqs'[r].handler = "webhook" /\ reqs'[r].signature = "valid"
             /\ reqs'[r].pc = "done") =>
                /\ reqs'[r].status = 200 /\ reqs'[r].code = "OK"
                /\ subscriptions' = subscriptions]_vars

\* A verified webhook was answered 200 without a write while two users had
\* subscription rows, one of them active.
C23_Witness ==
    \E r \in Slots :
        /\ reqs[r].handler = "webhook" /\ reqs[r].signature = "valid"
        /\ reqs[r].pc = "done" /\ reqs[r].status = 200
        /\ effects[r] = <<>>
        /\ Len(subscriptions) = 2
        /\ \E u \in Users : ActiveRow(u)

\* Events of u in the ledger that handler h's query finds after weekAgo.
LedgerCount(h, u, weekAgo) ==
    Cardinality({i \in DOMAIN usage_tracking :
                    /\ usage_tracking[i].user_id = u
                    /\ usage_tracking[i].action \in TagsOf(h)
                    /\ usage_tracking[i].created_at > weekAgo})

\* C24 (accepted overshoot race): the quota decision of a gated request is
\* taken from the ledger as it stands at the read, whatever other requests of
\* the same user are in flight between their own read and their append; so two
\* concurrent requests of a free user with 2 events on record both pass and
\* both append (the witness), leaving 4 events in the window.
C24_QuotaIgnoresInFlight ==
    [][\A r \in Slots :
          (reqs[r].handler \in {"upload", "cloud"} /\ Counts(r)) =>
              IF LedgerCount(reqs[r].handler, reqs[r].userId, now - WEEK) < FREE_LIMIT
              THEN reqs'[r].pc = "parse"
              ELSE reqs'[r].status = 403 /\ reqs'[r].code = "LIMIT_REACHED"]_vars

\* Both requests of a user without a subscription row were answered 200 and the
\* ledger holds 4 'image_generated' events of that user inside the window.
C24_Witness ==
    \E r1, r2 \in Slots :
        /\ r1 # r2
        /\ reqs[r1].handler = "upload" /\ reqs[r2].handler = "upload"
        /\ reqs[r1].userId = reqs[r2].userId
        /\ reqs[r1].pc = "done" /\ reqs[r1].status = 200
        /\ reqs[r2].pc = "done" /\ reqs[r2].status = 200
        /\ RowsOfUser(subscriptions, reqs[r1].userId) = {}
        /\ Len(usage_tracking) = FREE_LIMIT + 1
        /\ \A i \in DOMAIN usage_tracking :
              /\ usage_tracking[i].user_id = reqs[r1].userId
              /\ usage_tracking[i].action = "image_generated"
              /\ usage_tracking[i].created_at > now - WEEK

\* The awaited call of request r rejects in this step.
Rejects(r) == faults' = faults + 1 /\ reqs'[r] # reqs[r]

\* C25 (record after success): a request writes the ledger only in its last
\* step, after its R2 put (and after the entry update, which comes between
\* the two); when the put or the entry update rejects, the request ends with
\* 500 INTERNAL_ERROR, and no request that ended so has appended a usage event.
C25_RecordAfterSuccess ==
    /\ [](\A r \in Slots :
            /\ \A i \in DOMAIN effects[r] :
                  effects[r][i] = "usage"
                      => \E j \in 1..(i - 1) : effects[r][j] = "put"
            /\ (reqs[r].handler \in {"upload", "cloud"}
                  /\ reqs[r].code = "INTERNAL_ERROR") => UsageWrites(r) = 0)
    /\ [][\A r \in Slots :
            /\ (reqs[r].handler \in {"upload", "cloud"}
                  /\ usage_tracking' # usage_tracking /\ reqs'[r] # reqs[r])
                  => reqs[r].pc = "track" /\ reqs'[r].pc = "done"
            /\ (reqs[r].handler \in {"upload", "cloud"}
                  /\ reqs[r].pc \in {"put", "entry"} /\ Rejects(r))
                  => /\ reqs'[r].pc = "done" /\ reqs'[r].status = 500
                     /\ reqs'[r].code = "INTERNAL_ERROR"
                     /\ usage_tracking' = usage_tracking]_vars

\* The image was stored, the entry update rejected, and the request ended with
\* 500 having written nothing else.
C25_Witness ==
    \E r \in Slots :
        /\ reqs[r].handler \in {"upload", "cloud"} /\ reqs[r].pc = "done"
        /\ reqs[r].status = 500 /\ reqs[r].code = "INTERNAL_ERROR"
        /\ effects[r] = <<"put">>
        /\ faults > 0

\* C26 (webhook failure is reported): when the Stripe lookup or the database
\* write of a signature-verified webhook rejects, the request is answered
\* 500 INTERNAL_ERROR, not 200, and the subscriptions table is unchanged.
C26_WebhookFailureReported ==
    [][\A r \in Slots :
          (/\ reqs[r].handler = "webhook" /\ reqs[r].signature = "valid"
           /\ reqs[r].pc \in {"retrieve", "write"} /\ Rejects(r)) =>
              /\ reqs'[r].pc = "done" /\ reqs'[r].status = 500
              /\ reqs'[r].code = "INTERNAL_ERROR"
              /\ subscriptions' = subscriptions]_vars

\* A verified webhook ended with 500 while the row it was to update is still
\* inactive.
C26_Witness ==
    \E r \in Slots, i \in DOMAIN subscriptions :
        /\ reqs[r].handler = "webhook" /\ reqs[r].signature = "valid"
        /\ reqs[r].pc = "done" /\ reqs[r].status = 500
        /\ reqs[r].code = "INTERNAL_ERROR"
        /\ faults > 0
        /\ subscriptions[i].status = "inactive"

\* C27 (rejected requests are side-effect free): an upload or generate-cloud
\* request answered 401, 403 or 400 has written no store and called the AI
\* backend not once; and the quota is checked before the body is looked at:
\* a request of a user over the limit is answered 403 LIMIT_REACHED whatever
\* its body.
C27_RejectedIsFree ==
    /\ [](\A r \in Slots :
            (reqs[r].handler \in {"upload", "cloud"} /\ reqs[r].pc = "done"
               /\ reqs[r].status \in {400, 401, 403})
                => effects[r] = <<>> /\ reqs[r].attempts = 0)
    /\ [][\A r \in Slots :
            (/\ reqs[r].handler \in {"upload", "cloud"} /\ Counts(r)
             /\ LedgerCount(reqs[r].handler, reqs[r].userId, now - WEEK)
                   >= FREE_LIMIT)
                => /\ reqs'[r].pc = "done" /\ reqs'[r].status = 403
                   /\ reqs'[r].code = "LIMIT_REACHED"
                   /\ UNCHANGED Stores]_vars

\* A request with a body that cannot be used is at the quota check of a free
\* user who is over the limit.
C27_Witness ==
    \E r \in Slots :
        /\ reqs[r].handler \in {"upload", "cloud"} /\ reqs[r].pc = "count"
        /\ reqs[r].body \in {"malformed", "no_image", "invalid", "no_text"}
        /\ LedgerCount(reqs[r].handler, reqs[r].userId, now - WEEK) >= FREE_LIMIT

\* What handler h would decide or report for user u now: quota used up.
UsedUp(h, u) ==
    LET n == CASE h = "upload" -> uploadUsageCount(usage_tracking, u, now - WEEK)
               [] h = "cloud"  -> cloudUsageCount(usage_tracking, u, now - WEEK)
               [] OTHER        -> meUsageCount(usage_tracking, u, now - WEEK)
    IN n >= FREE_LIMIT

\* C28 (report agrees with enforcement): whenever a handler takes its count
\* for a free user, what it decides or reports (upload, generate-cloud: denied
\* with LIMIT_REACHED; /api/user/me: images_this_week >= limit) is what each
\* of the other two handlers would decide or report in the same state.
C28_ReportAgreesWithGate ==
    [][\A r \in Slots :
          (Counts(r) /\ ~ActiveRow(reqs[r].userId)) =>
              LET observed == IF reqs[r].handler = "me"
                              THEN reqs'[r].imagesThisWeek >= reqs'[r].limit
                              ELSE reqs'[r].code = "LIMIT_REACHED"
              IN \A h \in {"upload", "cloud", "me"} :
                    observed = UsedUp(h, reqs[r].userId)]_vars

\* Call c is an addJournal that returns in this step.
AddReturns(c) == calls[c].op = "add" /\ calls'[c].op = "none"

\* The journal of call c in a list: under its generated id or, once the API
\* has answered, under the API id.
OwnOf(c, j) ==
    \/ j.id = calls[c].newJournal.id
    \/ calls[c].pc = "json" /\ j.id = calls[c].apiJournal

\* C29 (addJournal under interleaving): when an addJournal call returns whose
\* journal no other operation has touched while it was awaiting, the other
\* journals of the list are the ones that were in it just before (what other
\* operations added, updated, deleted or merged meanwhile is kept), the list
\* holds exactly one record of the new journal (synced under the API id, or
\* unsynced under the generated id), and storage holds the list.
C29_AddKeepsInterleavedChanges ==
    [][\A c \in Calls :
          (AddReturns(c) /\ \E i \in 1..Len(journals) : journals[i] = calls[c].newJournal)
            => LET others(list) == SelectSeq(list, LAMBDA j : ~OwnOf(c, j))
                   own == SelectSeq(journals', LAMBDA j : OwnOf(c, j))
               IN /\ others(journals') = others(journals)
                  /\ Len(own) = 1
                  /\ \/ own[1].id = calls[c].newJournal.id /\ ~own[1].synced
                     \/ /\ calls[c].pc = "json"
                        /\ own[1].id = calls[c].apiJournal /\ own[1].synced
                  /\ storage' = Stored(journals')]_vars

\* Call c is a fetchJournalsFromAPI that returns in this step.
FetchReturns(c) == calls[c].op = "fetch" /\ calls'[c].op = "none"

NoIdTwice(list) ==
    \A i, k \in 1..Len(list) : list[i].id = list[k].id => i = k

InList(j, list) == \E i \in 1..Len(list) : list[i] = j

\* C30 (merge on fetch): a fetchJournalsFromAPI call returns in one of two
\* ways. It succeeds, which takes an answer holding a list: every journal that
\* was unsynced is still in the list, every journal of the answer whose id no
\* unsynced journal has is in the list with synced = true, no id is in the
\* list twice, and isLoading is false. Or it fails: the list is unchanged,
\* error is set and isLoading is false.
C30_MergeOnFetch ==
    [][\A c \in Calls :
          FetchReturns(c) =>
            LET unsyncedLocal == SelectSeq(journals, LAMBDA j : ~j.synced)
                apiJournals == calls[c].apiJournals
            IN /\ isLoading' = FALSE
               /\ \/ /\ calls[c].pc = "json" /\ calls[c].shape = "array"
                     /\ \A i \in 1..Len(unsyncedLocal) :
                           InList(unsyncedLocal[i], journals')
                     /\ \A i \in 1..Len(apiJournals) :
                           apiJournals[i].id \notin IdsOf(unsyncedLocal)
                             => \E k \in 1..Len(journals') :
                                   /\ journals'[k].id = apiJournals[i].id
                                   /\ journals'[k].synced
                     /\ NoIdTwice(journals')
                     /\ storage' = Stored(journals')
                  \/ /\ journals' = journals
                     /\ error' # NULL]_vars

\* The answer to a fetch holds a list with an entry in it, and the store
\* holds an unsynced journal and a synced one the API holds too: the merge
\* is about to be made.
C30_Witness ==
    \E c \in Calls :
        /\ calls[c].op = "fetch" /\ calls[c].pc = "json" /\ calls[c].shape = "array"
        /\ \E i, k \in 1..Len(journals) :
              /\ ~journals[i].synced
              /\ journals[k].synced
              /\ journals[k].id \in IdsOf(calls[c].apiJournals)

====
